---- MODULE Spec2Model ----
(***************************************************************************)
(* Model of pg_comparative.py: the comparative diagnostic of two           *)
(* PostgreSQL servers.                                                     *)
(*                                                                         *)
(*   Spec      one run of main(): argument validation, connect(), the 26   *)
(*             catalog queries of generate_markdown_report(), the file     *)
(*             write and the finally: close().                             *)
(*   SpecRec   generate_recommendations() as a pure function of its eight  *)
(*             records.                                                    *)
(*   SpecPerf  the SQL of get_query_performance_issues() over a small      *)
(*             pg_stat_user_tables.                                        *)
(*                                                                         *)
(* Conventions.  A Python dict is a function from a set of key strings; {} *)
(* is the function with the empty domain.  A column value is a record      *)
(* [t, n, s]: SQL NULL / Python None (t = "null"), an integer (t = "int"), *)
(* a numeric with two decimals held in hundredths (t = "dec") or a text    *)
(* (t = "str").  Percentages that are compared as floats are sampled at    *)
(* multiples of 0.25, which binary64 represents exactly, so float() and    *)
(* the subtractions of generate_recommendations are exact on them.         *)
(* The emoji of the source's literals are written as ASCII marks:          *)
(* [X] for the cross, [OK] for the check mark, [!] for the warning sign,   *)
(* and the backquotes around setting names are dropped.                    *)
(***************************************************************************)
EXTENDS Integers, Sequences, FiniteSets, TLC

VARIABLES
    pc,        \* position of the process (or of the pure-function harness)
    args,      \* parsed command line: [ok : required arguments present, format]
    conn1,     \* self.conn1: "none" (None), "open", "closed"
    conn2,     \* self.conn2
    db,        \* what each server's catalog currently holds (environment)
    qi,        \* index of the next catalog query of generate_markdown_report
    res,       \* the locals v1, v2, c1, ... : category -> server -> result
    report,    \* the local list report and afterwards the returned string
    issued,    \* server -> category -> number of execute_query calls made
    failed,    \* <<server, category>> of the execute_query calls that raised
    file,      \* args.output: "none", "empty" (opened, nothing written), "report"
    exc,       \* an exception is propagating out of the try block
    exitCode,  \* process exit status, -1 while running
    recIn,     \* arguments of generate_recommendations (SpecRec)
    recOut,    \* lines returned by generate_recommendations (SpecRec)
    tables,    \* rows of pg_stat_user_tables (SpecPerf)
    perfOut    \* rows returned by the performance-issues query (SpecPerf)

vars == <<pc, args, conn1, conn2, db, qi, res, report, issued, failed, file,
          exc, exitCode, recIn, recOut, tables, perfOut>>

-----------------------------------------------------------------------------
(* Bounds *)

MaxFail == 2      \* most execute_query calls that raise during one run
MaxRows == 2      \* rows of a non-empty list category
MaxTables == 2    \* rows of pg_stat_user_tables in SpecPerf

-----------------------------------------------------------------------------
(* Values and Python's conversions *)

NULL == [t |-> "null", n |-> 0, s |-> ""]
IntV(i) == [t |-> "int", n |-> i, s |-> ""]
DecV(h) == [t |-> "dec", n |-> h, s |-> ""]
StrV(x) == [t |-> "str", n |-> 0, s |-> x]

EmptyDict == [k \in {} |-> NULL]

\* dict.get(key, default)
Get(d, key, default) == IF key \in DOMAIN d THEN d[key] ELSE default

\* dict.get(key): None when the key is missing
Get1(d, key) == Get(d, key, NULL)

\* x or 0: None and a zero number are falsy
OrZero(v) == IF v.t = "null" \/ (v.t \in {"int", "dec"} /\ v.n = 0) THEN IntV(0) ELSE v

\* float(x), in hundredths; float(None) raises, so only numbers have a value
FloatOf(v) == CASE v.t = "int" -> 100 * v.n
                [] v.t = "dec" -> v.n

\* int(x): truncation toward zero; int(None) raises, so only numbers have a value
IntOf(v) == CASE v.t = "int" -> v.n
              [] v.t = "dec" -> IF v.n >= 0 THEN v.n \div 100 ELSE -((-v.n) \div 100)

Abs(i) == IF i < 0 THEN -i ELSE i

Digit(d) == SubSeq("0123456789", d + 1, d + 1)

RECURSIVE NatStr(_)
NatStr(n) == IF n < 10 THEN Digit(n) ELSE NatStr(n \div 10) \o Digit(n % 10)

\* str() of an int
IntStr(i) == IF i < 0 THEN "-" \o NatStr(-i) ELSE NatStr(i)

\* str() of a Decimal with two decimals, from hundredths
DecStr(h) == (IF h < 0 THEN "-" ELSE "") \o NatStr(Abs(h) \div 100) \o "."
             \o Digit((Abs(h) % 100) \div 10) \o Digit(Abs(h) % 10)

\* str(x) as an f-string interpolates it
PyStr(v) == CASE v.t = "null" -> "None"
              [] v.t = "int" -> IntStr(v.n)
              [] v.t = "dec" -> DecStr(v.n)
              [] OTHER -> v.s

\* f"{x:.1f}" of a non-negative float given in hundredths: round half to even
Fmt1(h) == LET q == h \div 10
               r == h % 10
               t == IF r > 5 \/ (r = 5 /\ q % 2 = 1) THEN q + 1 ELSE q
           IN NatStr(t \div 10) \o "." \o Digit(t % 10)

-----------------------------------------------------------------------------
(* generate_recommendations *)

cache_diff(cache1, cache2) ==
    FloatOf(OrZero(Get(cache2, "cache_hit_percent", IntV(0))))
    - FloatOf(OrZero(Get(cache1, "cache_hit_percent", IntV(0))))

conn_diff(c1, c2) ==
    IntOf(OrZero(Get(c2, "connection_usage_percent", IntV(0))))
    - IntOf(OrZero(Get(c1, "connection_usage_percent", IntV(0))))

\* the unused-index difference with its operands exchanged
unused_diff_exchanged(idx1, idx2) ==
    FloatOf(OrZero(Get(idx1, "unused_indexes_percent", IntV(0))))
    - FloatOf(OrZero(Get(idx2, "unused_indexes_percent", IntV(0))))

unused_diff(idx1, idx2) ==
    FloatOf(OrZero(Get(idx2, "unused_indexes_percent", IntV(0))))
    - FloatOf(OrZero(Get(idx1, "unused_indexes_percent", IntV(0))))

\* the cache rule with the boundary included
CacheRuleFiresLe(d) == d <= -1000

\* if cache_diff < -10, the difference in hundredths
CacheRuleFires(d) == d < -1000

\* the connection rule with the boundary included
ConnRuleFiresGe(d) == d >= 20

\* if conn_diff > 20
ConnRuleFires(d) == d > 20

\* if unused_diff > 5, the difference in hundredths
IndexRuleFires(d) == d > 500

\* the memory rule reading server 1 with the table's 'N/A' default
MemoryRuleFiresDefault(v1, v2) == Get(v1, "shared_buffers", StrV("N/A")) # Get1(v2, "shared_buffers")

\* if v1.get('shared_buffers') != v2.get('shared_buffers')
MemoryRuleFires(v1, v2) == Get1(v1, "shared_buffers") # Get1(v2, "shared_buffers")

CacheTitle(d) ==
    "[X] **Cache Hit Ratio**: Server 2 has " \o Fmt1(Abs(d))
    \o "% lower cache hit ratio. This is likely the PRIMARY performance issue."

CacheFixes ==
    << "   - **Fix**: Check for missing indexes on Server 2",
       "   - **Fix**: Increase shared_buffers and effective_cache_size on Server 2",
       "   - **Fix**: Analyze queries with high sequential scans vs index scans" >>

CacheSimilar == "[OK] **Cache Hit Ratio**: Similar between servers"

ConnTitle(d) ==
    "\n[X] **Connection Pool**: Server 2 has " \o IntStr(d) \o "% higher connection usage"

ConnFixes ==
    << "   - **Fix**: Identify connection leaks in application",
       "   - **Fix**: Implement connection pooling (PgBouncer)" >>

IndexTitle(d) ==
    "\n[X] **Index Usage**: Server 2 has " \o Fmt1(d) \o "% more unused indexes"

IndexFixes ==
    << "   - **Fix**: Drop unused indexes to free disk space and improve writes" >>

MemoryTitle == "\n[!] **Memory Config**: Different shared_buffers settings"

MemoryFixes(v1, v2) ==
    << "   - Server 1: " \o PyStr(Get1(v1, "shared_buffers")),
       "   - Server 2: " \o PyStr(Get1(v2, "shared_buffers")),
       "   - **Fix**: Align settings or upgrade Server 2 configuration" >>

NoMajorDifferences ==
    "[OK] No major differences found. Issue may be application-level or related to data patterns."

\* generate_recommendations with the memory block placed before the index block
generate_recommendations_reordered(v1, v2, cache1, cache2, c1, c2, idx1, idx2) ==
    LET cd == cache_diff(cache1, cache2)
        r1 == IF CacheRuleFires(cd) THEN <<CacheTitle(cd)>> \o CacheFixes
                                    ELSE <<CacheSimilar>>
        nd == conn_diff(c1, c2)
        r2 == IF ConnRuleFires(nd) THEN r1 \o <<ConnTitle(nd)>> \o ConnFixes ELSE r1
        r3 == IF MemoryRuleFires(v1, v2)
              THEN r2 \o <<MemoryTitle>> \o MemoryFixes(v1, v2) ELSE r2
        ud == unused_diff(idx1, idx2)
        r4 == IF IndexRuleFires(ud) THEN r3 \o <<IndexTitle(ud)>> \o IndexFixes ELSE r3
    IN IF r4 = <<>> THEN <<NoMajorDifferences>> ELSE r4

\* The list recommendations just before the join; one element per line appended.
generate_recommendations(v1, v2, cache1, cache2, c1, c2, idx1, idx2) ==
    LET cd == cache_diff(cache1, cache2)
        r1 == IF CacheRuleFires(cd) THEN <<CacheTitle(cd)>> \o CacheFixes
                                    ELSE <<CacheSimilar>>
        nd == conn_diff(c1, c2)
        r2 == IF ConnRuleFires(nd) THEN r1 \o <<ConnTitle(nd)>> \o ConnFixes ELSE r1
        ud == unused_diff(idx1, idx2)
        r3 == IF IndexRuleFires(ud) THEN r2 \o <<IndexTitle(ud)>> \o IndexFixes ELSE r2
        r4 == IF MemoryRuleFires(v1, v2)
              THEN r3 \o <<MemoryTitle>> \o MemoryFixes(v1, v2) ELSE r3
    IN IF r4 = <<>> THEN <<NoMajorDifferences>> ELSE r4

-----------------------------------------------------------------------------
(* The rows the scalar catalog queries return, computed as their SQL does *)

\* ROUND(a / b) of non-negative numerics: half away from zero
RoundDiv(a, b) == (2 * a + b) \div (2 * b)

\* ROUND(100.0 * hit / NULLIF(hit + read, 0), 2); sum() over no rows is NULL
HitPercent(hit, read) ==
    IF hit.t = "null" \/ read.t = "null" THEN NULL
    ELSE IF hit.n + read.n = 0 THEN NULL
    ELSE DecV(RoundDiv(10000 * hit.n, hit.n + read.n))

\* get_version_info: one row of current_setting() values (random_page_cost,
\* a float that no rule reads, is held as a whole number)
VersionRow(sb) ==
    [version |-> StrV("PostgreSQL 16.2 on x86_64-pc-linux-gnu"),
     pg_version |-> StrV("16.2"),
     max_connections |-> IntV(100),
     shared_buffers |-> StrV(sb),
     effective_cache_size |-> StrV("4GB"),
     work_mem |-> StrV("4MB"),
     maintenance_work_mem |-> StrV("64MB"),
     random_page_cost |-> IntV(4),
     effective_io_concurrency |-> IntV(1),
     synchronous_commit |-> StrV("on"),
     wal_level |-> StrV("replica")]

\* get_connection_stats: counts over pg_stat_activity and max_connections
ConnRow(current, max, active, idle) ==
    [current_connections |-> IntV(current),
     max_connections |-> IntV(max),
     active_connections |-> IntV(active),
     idle_connections |-> IntV(idle),
     connection_usage_percent |-> IntV(RoundDiv(100 * current, max))]

\* get_cache_hit_ratio: sums over pg_statio_user_tables (NULL when it is empty)
CacheRow(heap_read, heap_hit, idx_read, idx_hit) ==
    [heap_read |-> heap_read,
     heap_hit |-> heap_hit,
     cache_hit_percent |-> HitPercent(heap_hit, heap_read),
     idx_read |-> idx_read,
     idx_hit |-> idx_hit,
     idx_cache_hit_percent |-> HitPercent(idx_hit, idx_read)]

\* get_index_stats: aggregates over pg_stat_user_indexes; with no index the
\* sum and the average are NULL and NULL / count(*) is NULL
IndexRow(total, unused, avg_scans) ==
    [total_indexes |-> IntV(total),
     unused_indexes |-> IF total = 0 THEN NULL ELSE IntV(unused),
     unused_indexes_percent |->
         IF total = 0 THEN NULL ELSE DecV(RoundDiv(10000 * unused, total)),
     avg_index_scans |-> IF total = 0 THEN NULL ELSE DecV(avg_scans)]

\* a cache row of a server whose heap hit ratio is h hundredths of a percent
CacheAt(h) == CacheRow(IntV(10000 - h), IntV(h), IntV(500), IntV(9500))

\* the cache row of a server without user tables
CacheNoTables == CacheRow(NULL, NULL, NULL, NULL)

\* a connection row with usage u percent of 100 connections
ConnAt(u) == ConnRow(u, 100, 1, u - 1)

-----------------------------------------------------------------------------
(* SpecRec: generate_recommendations applied to sampled records.  Server 1  *)
(* is sampled at one healthy value per metric, server 2 around each        *)
(* threshold; every record may also be {} (its query failed).              *)

VersionIn == {EmptyDict, VersionRow("128MB"), VersionRow("4GB")}
Cache1In == {EmptyDict, CacheNoTables, CacheAt(9500)}
Cache2In == {EmptyDict, CacheNoTables} \cup {CacheAt(h) : h \in {8000, 8475, 8500, 9000, 9500}}
Conn1In == {EmptyDict, ConnAt(10)}
Conn2In == {EmptyDict, ConnRow(1, 1000, 1, 0)} \cup {ConnAt(u) : u \in {10, 25, 30, 35}}
Index1In == {EmptyDict, IndexRow(0, 0, 0), IndexRow(40, 4, 1250)}
Index2In == {EmptyDict, IndexRow(0, 0, 0), IndexRow(40, 4, 1250),
             IndexRow(40, 6, 900), IndexRow(400, 61, 900)}

NoRecIn == [v1 |-> EmptyDict, v2 |-> EmptyDict, cache1 |-> EmptyDict,
            cache2 |-> EmptyDict, c1 |-> EmptyDict, c2 |-> EmptyDict,
            idx1 |-> EmptyDict, idx2 |-> EmptyDict]

-----------------------------------------------------------------------------
(* get_query_performance_issues: the SQL over pg_stat_user_tables.         *)
(* Comparisons are three-valued: idx_scan is NULL for a table without      *)
(* indexes.                                                                *)

\* LIMIT 15
PerfLimit == 15

SqlEq(a, b) == IF a.t = "null" \/ b.t = "null" THEN "U"
               ELSE IF a.n = b.n THEN "T" ELSE "F"

SqlGt(a, b) == IF a.t = "null" \/ b.t = "null" THEN "U"
               ELSE IF a.n > b.n THEN "T" ELSE "F"

SqlAnd(p, q) == IF p = "F" \/ q = "F" THEN "F"
                ELSE IF p = "T" /\ q = "T" THEN "T" ELSE "U"

SqlOr(p, q) == IF p = "T" \/ q = "T" THEN "T"
               ELSE IF p = "F" /\ q = "F" THEN "F" ELSE "U"

\* a * b and a - b, NULL when an operand is NULL
SqlTimes(a, b) == IF a.t = "null" \/ b.t = "null" THEN NULL ELSE IntV(a.n * b.n)
SqlMinus(a, b) == IF a.t = "null" \/ b.t = "null" THEN NULL ELSE IntV(a.n - b.n)

\* idx_scan = 0 AND seq_scan > 100
MissingIndexCond(t) == SqlAnd(SqlEq(t.idx_scan, IntV(0)), SqlGt(t.seq_scan, IntV(100)))

\* seq_scan > idx_scan * 10
FullScanCond(t) == SqlGt(t.seq_scan, SqlTimes(t.idx_scan, IntV(10)))

\* CASE WHEN ... THEN 'MISSING_INDEX' WHEN ... THEN 'FULL_TABLE_SCANS' ELSE 'OK' END
IssueType(t) == IF MissingIndexCond(t) = "T" THEN "MISSING_INDEX"
                ELSE IF FullScanCond(t) = "T" THEN "FULL_TABLE_SCANS"
                ELSE "OK"

\* the query without its WHERE clause
PerfWhereAll(t) == TRUE

\* WHERE (idx_scan = 0 AND seq_scan > 100) OR (seq_scan > idx_scan * 10)
PerfWhere(t) == SqlOr(MissingIndexCond(t), FullScanCond(t)) = "T"

\* the SELECT list
PerfRow(t) ==
    [schemaname |-> StrV("public"),
     table_name |-> StrV(t.relname),
     seq_vs_idx_diff |-> SqlMinus(t.seq_scan, t.idx_scan),
     seq_scan |-> t.seq_scan,
     idx_scan |-> t.idx_scan,
     issue_type |-> StrV(IssueType(t)),
     table_size |-> StrV("8192 bytes")]

Min(a, b) == IF a < b THEN a ELSE b

\* The results the server may return for the query over the table rows T (a
\* sequence): the rows passing WHERE, ORDER BY seq_scan DESC (rows with equal
\* seq_scan in either order), LIMIT 15.
PerfQuery(T) ==
    LET keep == {i \in DOMAIN T : PerfWhere(T[i])}
        n == Cardinality(keep)
        orders == {f \in [1..n -> keep] :
                      /\ \A i, j \in 1..n : i # j => f[i] # f[j]
                      /\ \A i \in 1..n : \A j \in 1..n :
                             i < j => T[f[i]].seq_scan.n >= T[f[j]].seq_scan.n}
    IN {[i \in 1..Min(n, PerfLimit) |-> PerfRow(T[f[i]])] : f \in orders}

-----------------------------------------------------------------------------
(* The remaining catalog queries and what a server holds *)

\* get_database_size
SizeRow(bytes, pretty) ==
    [database_size |-> StrV(pretty), database_size_bytes |-> IntV(bytes)]

\* get_table_count_and_stats: aggregates over pg_stat_user_tables; over no
\* rows count(*) is 0 and the other aggregates are NULL
TableStatsRow(n) ==
    [total_tables |-> IntV(n),
     avg_rows_per_table |-> IF n = 0 THEN NULL ELSE IntV(1200),
     max_rows_in_table |-> IF n = 0 THEN NULL ELSE IntV(5000),
     avg_dead_rows |-> IF n = 0 THEN NULL ELSE IntV(30),
     total_dead_rows |-> IF n = 0 THEN NULL ELSE IntV(30 * n)]

\* get_lock_stats
LockRow(blocked, active, waiting) ==
    [blocked_locks |-> IntV(blocked),
     active_locks |-> IntV(active),
     waiting_queries |-> IntV(waiting)]

\* get_memory_stats; pages is the shared_buffers setting of pg_settings
MemoryRow(sb, pages) ==
    [shared_buffers |-> StrV(sb),
     effective_cache_size |-> StrV("4GB"),
     work_mem |-> StrV("4MB"),
     maintenance_work_mem |-> StrV("64MB"),
     shared_buffers_level |-> StrV(IF pages < 1000000 THEN "LOW"
                                   ELSE IF pages < 4000000 THEN "MEDIUM" ELSE "HIGH")]

\* one row of get_active_queries
ActiveRow(i) ==
    [pid |-> IntV(100 + i), usename |-> StrV("app"), state |-> StrV("active"),
     duration_sec |-> DecV(150 * i), query_snippet |-> StrV("SELECT 1")]

\* one row of get_longest_queries
LongRow(i) ==
    [pid |-> IntV(100 + i), usename |-> StrV("app"),
     duration_hours |-> DecV(25 * i), query_snippet |-> StrV("SELECT 1")]

\* one row of get_table_bloat (n_dead_tup > 1000)
BloatRow(i) ==
    [schemaname |-> StrV("public"), table_name |-> StrV("t" \o NatStr(i)),
     live_rows |-> IntV(9000), dead_rows |-> IntV(1000 * i + 1),
     dead_rows_percent |-> HitPercent(IntV(1000 * i + 1), IntV(9000)),
     table_size |-> StrV("8192 bytes")]

\* one row of get_autovacuum_stats
VacuumRow(i) ==
    [schemaname |-> StrV("public"), table_name |-> StrV("t" \o NatStr(i)),
     last_vacuum |-> NULL, last_autovacuum |-> StrV("2024-01-01"),
     last_analyze |-> NULL, last_autoanalyze |-> StrV("2024-01-01"),
     vacuum_count |-> IntV(0), autovacuum_count |-> IntV(i),
     analyze_count |-> IntV(0), autoanalyze_count |-> IntV(i)]

\* The category of each catalog query, in the order generate_markdown_report
\* issues them (each first on conn1, then on conn2).
Cats == << "version", "connections", "cache", "size", "tables", "indexes", "locks",
           "active", "long", "bloat", "perf", "autovacuum", "memory" >>

CatSet == {Cats[i] : i \in DOMAIN Cats}

\* the getters that return execute_query's list as it is
ListCats == {"active", "long", "bloat", "perf", "autovacuum"}

\* the getters that return `result[0] if result else {}`
ScalarCats == CatSet \ ListCats

\* What a server can hold: "empty" has no user table, index or other session,
\* "fast" and "slow" hold MaxRows rows for every list query.
Profiles == {"empty", "fast", "slow"}

ListLen(p) == IF p = "empty" THEN 0 ELSE MaxRows

\* pg_stat_user_tables of a server: table i has seq_scan 100 + 50 i and
\* idx_scan i - 1, and one more table is scanned through its index.
StatTables(p) ==
    [i \in 1..ListLen(p) |->
        [relname |-> "t" \o NatStr(i), seq_scan |-> IntV(100 + 50 * i),
         idx_scan |-> IntV(i - 1)]]
    \o (IF p = "empty" THEN <<>>
        ELSE <<[relname |-> "t0", seq_scan |-> IntV(10), idx_scan |-> IntV(5)]>>)

\* The row lists cursor.fetchall() can return for the query of category cat
\* on a server holding p.
Results(p, cat) ==
    CASE cat = "version" -> {<<VersionRow(IF p = "slow" THEN "128MB" ELSE "4GB")>>}
      [] cat = "connections" ->
            {<<IF p = "empty" THEN ConnRow(1, 100, 1, 0)
               ELSE IF p = "fast" THEN ConnAt(10) ELSE ConnAt(35)>>}
      [] cat = "cache" ->
            {<<IF p = "empty" THEN CacheNoTables
               ELSE IF p = "fast" THEN CacheAt(9500) ELSE CacheAt(8000)>>}
      [] cat = "size" -> {<<SizeRow(7000000, "7 MB")>>}
      [] cat = "tables" -> {<<TableStatsRow(IF p = "empty" THEN 0 ELSE 1 + ListLen(p))>>}
      [] cat = "indexes" ->
            {<<IF p = "empty" THEN IndexRow(0, 0, 0)
               ELSE IF p = "fast" THEN IndexRow(40, 4, 1250) ELSE IndexRow(40, 10, 900)>>}
      [] cat = "locks" -> {<<LockRow(0, IF p = "empty" THEN 1 ELSE 5, 0)>>}
      [] cat = "active" -> {[i \in 1..ListLen(p) |-> ActiveRow(i)]}
      [] cat = "long" -> {[i \in 1..ListLen(p) |-> LongRow(i)]}
      [] cat = "bloat" -> {[i \in 1..ListLen(p) |-> BloatRow(i)]}
      [] cat = "perf" -> PerfQuery(StatTables(p))
      [] cat = "autovacuum" -> {[i \in 1..ListLen(p) |-> VacuumRow(i)]}
      [] OTHER -> {<<IF p = "slow" THEN MemoryRow("128MB", 16384)
                     ELSE MemoryRow("4GB", 524288)>>}

-----------------------------------------------------------------------------
(* generate_markdown_report: what is appended to the list `report`.  An     *)
(* element is a text or the table handed to tabulate().                    *)

Text(x) == [kind |-> "text", text |-> x, headers |-> <<>>, rows |-> <<>>]

\* tabulate(rows, headers=...)
Table(headers, rows) == [kind |-> "table", text |-> "", headers |-> headers, rows |-> rows]

\* "\n".join(lines), kept as its lines
Joined(lines) == [kind |-> "lines", text |-> "", headers |-> <<>>, rows |-> lines]

NA == StrV("N/A")

\* d.get(key, 'N/A'), or f"{d.get(key, 'N/A')}%" for a percentage
Cell(d, key, pct) == IF pct THEN StrV(PyStr(Get(d, key, NA)) \o "%") ELSE Get(d, key, NA)

\* The rows of each scalar table: label, key, rendered as a percentage.
Layout(cat) ==
    CASE cat = "version" ->
           << <<"PostgreSQL Version", "pg_version", FALSE>>,
              <<"Max Connections", "max_connections", FALSE>>,
              <<"Shared Buffers", "shared_buffers", FALSE>>,
              <<"Effective Cache Size", "effective_cache_size", FALSE>>,
              <<"Work Memory", "work_mem", FALSE>>,
              <<"Random Page Cost", "random_page_cost", FALSE>>,
              <<"Effective IO Concurrency", "effective_io_concurrency", FALSE>>,
              <<"Synchronous Commit", "synchronous_commit", FALSE>> >>
      [] cat = "connections" ->
           << <<"Current Connections", "current_connections", FALSE>>,
              <<"Max Connections", "max_connections", FALSE>>,
              <<"Active Connections", "active_connections", FALSE>>,
              <<"Idle Connections", "idle_connections", FALSE>>,
              <<"Connection Usage %", "connection_usage_percent", TRUE>> >>
      [] cat = "cache" ->
           << <<"Heap Cache Hit %", "cache_hit_percent", TRUE>>,
              <<"Index Cache Hit %", "idx_cache_hit_percent", TRUE>>,
              <<"Heap Blocks Read", "heap_read", FALSE>>,
              <<"Heap Blocks Hit", "heap_hit", FALSE>> >>
      [] cat = "size" ->
           << <<"Database Size", "database_size", FALSE>> >>
      [] cat = "tables" ->
           << <<"Total Tables", "total_tables", FALSE>>,
              <<"Avg Rows per Table", "avg_rows_per_table", FALSE>>,
              <<"Max Rows in Table", "max_rows_in_table", FALSE>>,
              <<"Total Dead Rows", "total_dead_rows", FALSE>> >>
      [] cat = "indexes" ->
           << <<"Total Indexes", "total_indexes", FALSE>>,
              <<"Unused Indexes", "unused_indexes", FALSE>>,
              <<"Unused Indexes %", "unused_indexes_percent", TRUE>>,
              <<"Avg Index Scans", "avg_index_scans", FALSE>> >>
      [] cat = "locks" ->
           << <<"Blocked Locks", "blocked_locks", FALSE>>,
              <<"Active Locks", "active_locks", FALSE>>,
              <<"Waiting Queries", "waiting_queries", FALSE>> >>
      [] cat = "memory" ->
           << <<"Shared Buffers", "shared_buffers", FALSE>>,
              <<"Effective Cache Size", "effective_cache_size", FALSE>>,
              <<"Work Memory", "work_mem", FALSE>>,
              <<"Maintenance Work Memory", "maintenance_work_mem", FALSE>> >>
      [] OTHER -> <<>>

\* version_table, conn_table, cache_table, ... : one row per layout entry
ScalarRows(cat, r1, r2) ==
    [i \in DOMAIN Layout(cat) |->
        << StrV(Layout(cat)[i][1]),
           Cell(r1, Layout(cat)[i][2], Layout(cat)[i][3]),
           Cell(r2, Layout(cat)[i][2], Layout(cat)[i][3]) >>]

CacheNote ==
    "\n> [!] **Cache hit ratio should be >95%**. Lower values indicate missing indexes or insufficient memory.\n"

\* what follows the two queries of a scalar category
ScalarSection(cat, r1, r2) ==
    << Table(<<IF cat \in {"version", "memory"} THEN "Parameter" ELSE "Metric",
               "Server 1", "Server 2">>, ScalarRows(cat, r1, r2)),
       Text(IF cat = "cache" THEN CacheNote ELSE "\n") >>

\* the subsection title of a non-empty list
ListTitle(cat, s, n) ==
    "\n### Server " \o NatStr(s) \o
    (CASE cat = "active" -> " (" \o NatStr(n) \o " active)\n"
       [] cat = "long" -> " (" \o NatStr(n) \o " queries)\n"
       [] cat = "bloat" -> " (Tables with >1000 dead rows: " \o NatStr(n) \o ")\n"
       [] cat = "perf" -> " (Issues found: " \o NatStr(n) \o ")\n"
       [] OTHER -> "\n")

\* the sentence of an empty list
NoData(cat, s) ==
    "\n### Server " \o NatStr(s) \o
    (CASE cat = "active" -> ": No active queries\n"
       [] cat = "long" -> ": No long running queries\n"
       [] cat = "bloat" -> ": No significant table bloat\n"
       [] OTHER -> ": No query performance issues detected\n")

\* the if/else on one server's list; the autovacuum block has no else and
\* tabulates vac[:5]
ListPart(cat, s, rows) ==
    IF rows # <<>>
    THEN << Text(ListTitle(cat, s, Len(rows))),
            Table(<<"keys">>, IF cat = "autovacuum"
                              THEN SubSeq(rows, 1, Min(5, Len(rows))) ELSE rows) >>
    ELSE IF cat = "autovacuum" THEN <<>> ELSE << Text(NoData(cat, s)) >>

\* what follows the two queries of a list category
ListSection(cat, r1, r2) ==
    ListPart(cat, 1, r1) \o ListPart(cat, 2, r2) \o << Text("\n") >>

\* the headers with those of the bloat and performance sections exchanged
HeaderExchanged(cat) ==
    CASE cat = "version" -> "## PostgreSQL Version & Configuration\n"
      [] cat = "connections" -> "## Connection Statistics\n"
      [] cat = "cache" -> "## Cache Hit Ratio (CRITICAL)\n"
      [] cat = "size" -> "## Database Size\n"
      [] cat = "tables" -> "## Table Statistics\n"
      [] cat = "indexes" -> "## Index Statistics\n"
      [] cat = "locks" -> "## Lock Statistics\n"
      [] cat = "active" -> "## Active Queries Now\n"
      [] cat = "long" -> "## Long Running Queries\n"
      [] cat = "bloat" -> "## Query Performance Issues\n"
      [] cat = "perf" -> "## Table Bloat (Dead Rows)\n"
      [] cat = "autovacuum" -> "## Autovacuum Statistics\n"
      [] OTHER -> "## Memory Configuration\n"

\* the `## ...` line appended before the two queries of a category
Header(cat) ==
    CASE cat = "version" -> "## PostgreSQL Version & Configuration\n"
      [] cat = "connections" -> "## Connection Statistics\n"
      [] cat = "cache" -> "## Cache Hit Ratio (CRITICAL)\n"
      [] cat = "size" -> "## Database Size\n"
      [] cat = "tables" -> "## Table Statistics\n"
      [] cat = "indexes" -> "## Index Statistics\n"
      [] cat = "locks" -> "## Lock Statistics\n"
      [] cat = "active" -> "## Active Queries Now\n"
      [] cat = "long" -> "## Long Running Queries\n"
      [] cat = "bloat" -> "## Table Bloat (Dead Rows)\n"
      [] cat = "perf" -> "## Query Performance Issues\n"
      [] cat = "autovacuum" -> "## Autovacuum Statistics\n"
      [] OTHER -> "## Memory Configuration\n"

\* the lines appended before the first query
Preamble ==
    << Text("# PostgreSQL Comparative Diagnostic Report"),
       Text("\n**Generated:** now\n"),
       Text("## Server Information\n"),
       Text("- **Server 1 (Fast):** host1:5432/db1"),
       Text("- **Server 2 (Slow):** host2:5432/db2\n") >>

RecommendationsHeader == "## Analysis & Recommendations\n\n"

\* the section appended once both results of a category are in
Section(cat, r1, r2) ==
    IF cat \in ListCats THEN ListSection(cat, r1, r2) ELSE ScalarSection(cat, r1, r2)

\* the tail of generate_markdown_report, after the memory table
Closing(r) ==
    << Text(RecommendationsHeader),
       Joined(generate_recommendations(
                  r["version"][1], r["version"][2], r["cache"][1], r["cache"][2],
                  r["connections"][1], r["connections"][2],
                  r["indexes"][1], r["indexes"][2])),
       Text("\n") >>

-----------------------------------------------------------------------------
(* One run of main() *)

\* the locals v1, v2, c1, c2, ... before they are assigned
\* the report lines up to and including the section of the n-th category
RECURSIVE RenderCats(_, _)
RenderCats(r, n) ==
    IF n = 0 THEN Preamble
    ELSE RenderCats(r, n - 1) \o <<Text(Header(Cats[n]))>>
                              \o Section(Cats[n], r[Cats[n]][1], r[Cats[n]][2])

\* the whole document generate_markdown_report returns for the results r
RenderAll(r) == RenderCats(r, Len(Cats)) \o Closing(r)

NoRes == [c \in CatSet |-> [s \in 1..2 |-> <<>>]]

NoneIssued == [s \in 1..2 |-> [c \in CatSet |-> 0]]

\* The variables a specification of a pure function leaves alone.
RunIdle ==
    /\ args = [ok |-> TRUE, format |-> "markdown"]
    /\ conn1 = "none" /\ conn2 = "none"
    /\ db = <<"empty", "empty">>
    /\ qi = 1 /\ res = NoRes /\ report = <<>>
    /\ issued = NoneIssued /\ failed = {}
    /\ file = "none" /\ exc = FALSE /\ exitCode = -1

RecIdle == recIn = NoRecIn /\ recOut = <<>>

PerfIdle == tables = <<>> /\ perfOut = <<>>

Init ==
    /\ pc = "start"
    /\ args \in [ok : BOOLEAN, format : {"markdown", "json"}]
    /\ conn1 = "none" /\ conn2 = "none"
    /\ db \in [1..2 -> Profiles]
    /\ qi = 1 /\ res = NoRes /\ report = <<>>
    /\ issued = NoneIssued /\ failed = {}
    /\ file = "none" /\ exc = FALSE /\ exitCode = -1
    /\ RecIdle /\ PerfIdle

\* execute_query without its except clause: every exception leaves the method
execute_query_unguarded(rows, outcome) ==
    [raised |-> outcome # "ok",
     rows |-> IF outcome = "ok" THEN rows ELSE <<>>]

\* execute_query with one failure state shared by both connections: once any
\* query has failed, every later query on either server yields []
execute_query_shared(rows, outcome) ==
    [raised |-> outcome = "interrupt",
     rows |-> IF outcome = "ok" /\ failed = {} THEN rows ELSE <<>>]

\* execute_query: `rows` is what fetchall() would return.  outcome "ok": the
\* query runs; "error": cursor/execute raises an Exception, which is logged
\* and replaced by []; "interrupt": a BaseException that `except Exception`
\* does not catch (KeyboardInterrupt) leaves the method.
execute_query(rows, outcome) ==
    [raised |-> outcome = "interrupt",
     rows |-> IF outcome = "ok" THEN rows ELSE <<>>]

\* `return result[0] if result else {}` of the scalar getters; the list
\* getters return the list itself
Getter(cat, result) ==
    IF cat \in ListCats THEN result
    ELSE IF result # <<>> THEN result[1] ELSE EmptyDict

\* close(): `if self.conn: self.conn.close()`
close(c) == IF c # "none" THEN "closed" ELSE c

\* `if not all(required_args)`: print_help, sys.exit(1)
MissingArguments ==
    /\ pc = "start" /\ ~args.ok
    /\ pc' = "exit" /\ exitCode' = 1
    /\ UNCHANGED <<args, conn1, conn2, db, qi, res, report, issued, failed, file,
                   exc, recIn, recOut, tables, perfOut>>

\* connect(), first try block: psycopg2.connect succeeds or sys.exit(1)
Connect1 ==
    /\ pc = "start" /\ args.ok
    /\ \E ok \in BOOLEAN :
         IF ok THEN conn1' = "open" /\ pc' = "connect2" /\ exitCode' = exitCode
         ELSE conn1' = conn1 /\ pc' = "exit" /\ exitCode' = 1
    /\ UNCHANGED <<args, conn2, db, qi, res, report, issued, failed, file, exc,
                   recIn, recOut, tables, perfOut>>

\* connect() whose second except block only logs the failure
Connect2LogsOnly ==
    /\ pc = "connect2"
    /\ \E ok \in BOOLEAN :
         /\ conn2' = (IF ok THEN "open" ELSE conn2)
         /\ pc' = "generate" /\ exitCode' = exitCode
    /\ UNCHANGED <<args, conn1, db, qi, res, report, issued, failed, file, exc,
                   recIn, recOut, tables, perfOut>>

\* connect(), second try block.  sys.exit(1) leaves __init__ and main()
\* before `diag` is bound and before the try/finally is entered.
Connect2 ==
    /\ pc = "connect2"
    /\ \E ok \in BOOLEAN :
         IF ok THEN conn2' = "open" /\ pc' = "generate" /\ exitCode' = exitCode
         ELSE conn2' = conn2 /\ pc' = "exit" /\ exitCode' = 1
    /\ UNCHANGED <<args, conn1, db, qi, res, report, issued, failed, file, exc,
                   recIn, recOut, tables, perfOut>>

\* args.format == "json": json.dumps of a fixed document, no query
GenerateJson ==
    /\ pc = "generate" /\ args.format = "json"
    /\ report' = <<Text("JSON format not yet implemented")>>
    /\ pc' = "write"
    /\ UNCHANGED <<args, conn1, conn2, db, qi, res, issued, failed, file, exc,
                   exitCode, recIn, recOut, tables, perfOut>>

\* The outcomes an execute_query call can have now: at most MaxFail calls of
\* a run raise an Exception.
Outcomes == {"ok", "interrupt"} \cup (IF Cardinality(failed) < MaxFail THEN {"error"} ELSE {})

\* An exception leaves generate_markdown_report: its locals are gone and
\* control is in main's finally block.
Raise ==
    /\ pc' = "finally" /\ exc' = TRUE
    /\ qi' = 1 /\ res' = NoRes /\ report' = <<>>

\* the conn1 query wrapped in a retry: after an Exception the same query is
\* issued again
QueryServer1Retrying ==
    /\ pc = "generate" /\ args.format = "markdown" /\ qi % 2 = 1
    /\ LET cat == Cats[(qi + 1) \div 2] IN
       \E outcome \in Outcomes : \E rows \in Results(db[1], cat) :
         LET r == execute_query(rows, outcome) IN
         /\ issued' = [issued EXCEPT ![1][cat] = @ + 1]
         /\ failed' = IF outcome = "error" THEN failed \cup {<<1, cat>>} ELSE failed
         /\ IF r.raised THEN Raise
            ELSE IF outcome = "error"
            THEN UNCHANGED <<report, res, qi, pc, exc>>
            ELSE /\ report' = (IF qi = 1 THEN Preamble ELSE report) \o <<Text(Header(cat))>>
                 /\ res' = [res EXCEPT ![cat][1] = Getter(cat, r.rows)]
                 /\ qi' = qi + 1
                 /\ pc' = pc /\ exc' = exc
    /\ UNCHANGED <<args, conn1, conn2, db, file, exitCode, recIn, recOut, tables, perfOut>>

\* generate_markdown_report up to and including the conn1 query of the next
\* category: the header lines, then get_...(self.conn1).
QueryServer1 ==
    /\ pc = "generate" /\ args.format = "markdown" /\ qi % 2 = 1
    /\ LET cat == Cats[(qi + 1) \div 2] IN
       \E outcome \in Outcomes : \E rows \in Results(db[1], cat) :
         LET r == execute_query(rows, outcome) IN
         /\ issued' = [issued EXCEPT ![1][cat] = @ + 1]
         /\ failed' = IF outcome = "error" THEN failed \cup {<<1, cat>>} ELSE failed
         /\ IF r.raised THEN Raise
            ELSE /\ report' = (IF qi = 1 THEN Preamble ELSE report) \o <<Text(Header(cat))>>
                 /\ res' = [res EXCEPT ![cat][1] = Getter(cat, r.rows)]
                 /\ qi' = qi + 1
                 /\ pc' = pc /\ exc' = exc
    /\ UNCHANGED <<args, conn1, conn2, db, file, exitCode, recIn, recOut, tables, perfOut>>

\* generate_markdown_report from the conn2 query of a category to just
\* before the next header: get_...(self.conn2), then the section's tables or
\* sentences; after the memory section the recommendations and the return.
QueryServer2 ==
    /\ pc = "generate" /\ args.format = "markdown" /\ qi % 2 = 0
    /\ LET cat == Cats[qi \div 2] IN
       \E outcome \in Outcomes : \E rows \in Results(db[2], cat) :
         LET r == execute_query(rows, outcome)
             res2 == [res EXCEPT ![cat][2] = Getter(cat, r.rows)]
         IN
         /\ issued' = [issued EXCEPT ![2][cat] = @ + 1]
         /\ failed' = IF outcome = "error" THEN failed \cup {<<2, cat>>} ELSE failed
         /\ IF r.raised THEN Raise
            ELSE /\ res' = res2
                 /\ report' = report \o Section(cat, res2[cat][1], res2[cat][2])
                                     \o (IF qi = 2 * Len(Cats) THEN Closing(res2) ELSE <<>>)
                 /\ qi' = qi + 1
                 /\ pc' = IF qi = 2 * Len(Cats) THEN "write" ELSE pc
                 /\ exc' = exc
    /\ UNCHANGED <<args, conn1, conn2, db, file, exitCode, recIn, recOut, tables, perfOut>>

\* `with open(args.output, 'w') as f: f.write(report)`: it succeeds, open
\* raises (nothing created) or write raises (the file is left truncated)
WriteFile ==
    /\ pc = "write"
    /\ \E outcome \in {"ok", "open_fails", "write_fails"} :
         /\ file' = (IF outcome = "ok" THEN "report"
                     ELSE IF outcome = "write_fails" THEN "empty" ELSE file)
         /\ exc' = (outcome # "ok")
    /\ pc' = "finally"
    /\ UNCHANGED <<args, conn1, conn2, db, qi, res, report, issued, failed,
                   exitCode, recIn, recOut, tables, perfOut>>

\* diag.close() placed after the try body instead of in a finally block: it
\* is skipped when an exception is propagating
CloseAfterTry ==
    /\ pc = "finally"
    /\ conn1' = (IF exc THEN conn1 ELSE close(conn1))
    /\ conn2' = (IF exc THEN conn2 ELSE close(conn2))
    /\ pc' = "exit"
    /\ exitCode' = IF exc THEN 1 ELSE 0
    /\ UNCHANGED <<args, db, qi, res, report, issued, failed, file, exc,
                   recIn, recOut, tables, perfOut>>

\* finally: diag.close(), then the process ends: status 0, or 1 when an
\* exception is propagating
Finally ==
    /\ pc = "finally"
    /\ conn1' = close(conn1) /\ conn2' = close(conn2)
    /\ pc' = "exit"
    /\ exitCode' = IF exc THEN 1 ELSE 0
    /\ UNCHANGED <<args, db, qi, res, report, issued, failed, file, exc,
                   recIn, recOut, tables, perfOut>>

Next ==
    \/ MissingArguments
    \/ Connect1
    \/ Connect2
    \/ GenerateJson
    \/ QueryServer1
    \/ QueryServer2
    \/ WriteFile
    \/ Finally

Spec == Init /\ [][Next]_vars

----------------------------------------------------------------------------
\* The two collections run as independent paths (SpecAny).
\*
\* generate_markdown_report calls each getter with one connection only
\* (self.conn1 or self.conn2) and execute_query works on the connection it is
\* given.  Here each server's 13 getters are called in catalog order, but the
\* calls for the two servers are interleaved in every possible way; the
\* report is rendered from the two collected snapshots afterwards.  The
\* code's own order (QueryServer1/QueryServer2) stays available, so both ways
\* of running are explored side by side.

\* the number of catalog queries already issued on server s
Progress(s) == Cardinality({c \in CatSet : issued[s][c] > 0})

\* the next getter call on server s, through self.conn<s> only
Collect(s) ==
    /\ \/ pc = "collect"
       \/ pc = "generate" /\ args.format = "markdown" /\ qi = 1
    /\ Progress(s) < Len(Cats)
    /\ LET cat == Cats[Progress(s) + 1] IN
       \E outcome \in Outcomes : \E rows \in Results(db[s], cat) :
         LET r == execute_query(rows, outcome) IN
         /\ issued' = [issued EXCEPT ![s][cat] = @ + 1]
         /\ failed' = IF outcome = "error" THEN failed \cup {<<s, cat>>} ELSE failed
         /\ IF r.raised THEN Raise
            ELSE /\ res' = [res EXCEPT ![cat][s] = Getter(cat, r.rows)]
                 /\ pc' = "collect"
                 /\ UNCHANGED <<qi, report, exc>>
    /\ UNCHANGED <<args, conn1, conn2, db, file, exitCode, recIn, recOut, tables, perfOut>>

CollectServer1 == Collect(1)

CollectServer2 == Collect(2)

\* the report assembled from the two finished collections
RenderReport ==
    /\ pc = "collect"
    /\ Progress(1) = Len(Cats) /\ Progress(2) = Len(Cats)
    /\ report' = RenderAll(res)
    /\ pc' = "write"
    /\ UNCHANGED <<args, conn1, conn2, db, qi, res, issued, failed, file, exc,
                   exitCode, recIn, recOut, tables, perfOut>>

NextAny ==
    \/ MissingArguments
    \/ Connect1
    \/ Connect2
    \/ GenerateJson
    \/ QueryServer1
    \/ QueryServer2
    \/ CollectServer1
    \/ CollectServer2
    \/ RenderReport
    \/ WriteFile
    \/ Finally

\* Every interleaving is explored with server 1 the healthy reference
\* ("Server 1 (Fast)") and server 2 in each of the profiles.
InitAny == Init /\ db[1] = "fast"

SpecAny == InitAny /\ [][NextAny]_vars

-----------------------------------------------------------------------------
(* SpecRec *)

InitRec ==
    /\ pc = "rec_call"
    /\ recIn \in [v1 : VersionIn, v2 : VersionIn, cache1 : Cache1In, cache2 : Cache2In,
                  c1 : Conn1In, c2 : Conn2In, idx1 : Index1In, idx2 : Index2In]
    /\ recOut = <<>>
    /\ RunIdle /\ PerfIdle

CallRecommendations ==
    /\ pc = "rec_call"
    /\ recOut' = generate_recommendations(recIn.v1, recIn.v2, recIn.cache1, recIn.cache2,
                                          recIn.c1, recIn.c2, recIn.idx1, recIn.idx2)
    /\ pc' = "rec_done"
    /\ UNCHANGED <<args, conn1, conn2, db, qi, res, report, issued, failed, file,
                   exc, exitCode, recIn, tables, perfOut>>

NextRec == CallRecommendations

SpecRec == InitRec /\ [][NextRec]_vars

-----------------------------------------------------------------------------
(* SpecPerf: the performance-issues query over up to MaxTables tables *)

SeqScanIn == {IntV(n) : n \in {0, 10, 50, 100, 101, 150}}
IdxScanIn == {NULL} \cup {IntV(n) : n \in {0, 4, 5, 10}}

StatRows(n) ==
    {[i \in 1..n |-> [relname |-> "t" \o NatStr(i), seq_scan |-> sq[i], idx_scan |-> ix[i]]] :
        sq \in [1..n -> SeqScanIn], ix \in [1..n -> IdxScanIn]}

InitPerf ==
    /\ pc = "perf_call"
    /\ \E n \in 0..MaxTables : tables \in StatRows(n)
    /\ perfOut = <<>>
    /\ RunIdle /\ RecIdle

CallPerformanceIssues ==
    /\ pc = "perf_call"
    /\ perfOut' \in PerfQuery(tables)
    /\ pc' = "perf_done"
    /\ UNCHANGED <<args, conn1, conn2, db, qi, res, report, issued, failed, file,
                   exc, exitCode, recIn, recOut, tables>>

NextPerf == CallPerformanceIssues

SpecPerf == InitPerf /\ [][NextPerf]_vars

-----------------------------------------------------------------------------
(* Properties of generate_recommendations (SpecRec) *)

StartsWith(x, p) == Len(x) >= Len(p) /\ SubSeq(x, 1, Len(p)) = p

\* a fix line belongs to the advisory whose title precedes it
IsFixLine(x) == StartsWith(x, "   - ")

\* the advisory lines of an output, in order
Advisories(out) == SelectSeq(out, LAMBDA x : ~IsFixLine(x))

HasLine(out, p) == \E i \in DOMAIN out : StartsWith(out[i], p)

\* the operand of a delta as the specification defines it: the value, or 0
\* when the field is missing or null (hundredths for a two-decimal numeric)
Operand(d, key) == IF key \in DOMAIN d /\ d[key].t # "null" THEN d[key].n ELSE 0

CacheDelta == Operand(recIn.cache2, "cache_hit_percent") - Operand(recIn.cache1, "cache_hit_percent")
ConnDelta == Operand(recIn.c2, "connection_usage_percent") - Operand(recIn.c1, "connection_usage_percent")
UnusedDelta == Operand(recIn.idx2, "unused_indexes_percent") - Operand(recIn.idx1, "unused_indexes_percent")

SharedBuffersEqual ==
    /\ ("shared_buffers" \in DOMAIN recIn.v1) = ("shared_buffers" \in DOMAIN recIn.v2)
    /\ "shared_buffers" \in DOMAIN recIn.v1 => recIn.v1.shared_buffers = recIn.v2.shared_buffers

HasCacheCritical == HasLine(recOut, "[X] **Cache Hit Ratio**")
HasConnectionPool == HasLine(recOut, "\n[X] **Connection Pool**")

\* C1: when none of the four rules fires (cache-hit delta not critical,
\* connection-usage delta at most 20, unused-index delta at most 5, equal
\* shared_buffers) the output is exactly the one fixed advisory "No major
\* differences found ...".
C1_NoRuleFiresOneFixedAdvisory ==
    (/\ pc = "rec_done"
     /\ CacheDelta > -1000 /\ ConnDelta <= 20 /\ UnusedDelta <= 500
     /\ SharedBuffersEqual)
    => (recOut = <<NoMajorDifferences>> /\ Advisories(recOut) = <<NoMajorDifferences>>)

\* C2 as stated: the CRITICAL cache-hit advisory is emitted exactly when the
\* cache-hit-percent delta is less than or equal to -10.
C2_CriticalIffDeltaAtMostMinus10 ==
    pc = "rec_done" => (HasCacheCritical <=> CacheDelta <= -1000)

\* C2 as amended: the CRITICAL cache-hit advisory is emitted exactly when the
\* cache-hit-percent delta is strictly less than -10: it is emitted for
\* -15.0 and -10.25, and not for the boundary -10 nor for -5.0.
C2_CriticalIffDeltaBelowMinus10 ==
    pc = "rec_done" => (HasCacheCritical <=> CacheDelta < -1000)

\* the boundary case of C2: delta = -10 and no CRITICAL advisory
C2_Witness ==
    /\ pc = "rec_done"
    /\ CacheDelta = -1000
    /\ ~HasCacheCritical
    /\ HasLine(recOut, CacheSimilar)

\* C3: the connection-pool advisory is emitted exactly when the
\* connection-usage-percent delta is strictly greater than 20 (emitted for
\* 25, not for 15 nor for the boundary 20).
C3_ConnectionPoolIffDeltaAbove20 ==
    pc = "rec_done" => (HasConnectionPool <=> ConnDelta > 20)

\* the boundary case of C3: delta = 20 and no connection-pool advisory
C3_Witness ==
    /\ pc = "rec_done"
    /\ ConnDelta = 20
    /\ ~HasConnectionPool

HasIndexUsage == HasLine(recOut, "\n[X] **Index Usage**")
HasMemoryConfig == HasLine(recOut, "\n[!] **Memory Config**")

\* C11: for each of the three numeric rules the delta that
\* generate_recommendations uses is value2 minus value1 with a missing or null
\* operand taken as 0: the rule fires exactly when that delta passes its
\* threshold and the title carries that delta; the call returns for every
\* combination of missing and null operands.
C11_DeltaIsValue2MinusValue1 ==
    pc = "rec_done" =>
        /\ recOut # <<>>
        /\ HasCacheCritical <=> CacheDelta < -1000
        /\ HasCacheCritical =>
              HasLine(recOut, "[X] **Cache Hit Ratio**: Server 2 has "
                              \o Fmt1(-CacheDelta) \o "% lower cache hit ratio.")
        /\ HasConnectionPool <=> ConnDelta > 20
        /\ HasConnectionPool =>
              HasLine(recOut, "\n[X] **Connection Pool**: Server 2 has "
                              \o NatStr(ConnDelta) \o "% higher connection usage")
        /\ HasIndexUsage <=> UnusedDelta > 500
        /\ HasIndexUsage =>
              HasLine(recOut, "\n[X] **Index Usage**: Server 2 has "
                              \o Fmt1(UnusedDelta) \o "% more unused indexes")
        /\ CacheDelta = -1500 => HasLine(recOut, "[X] **Cache Hit Ratio**: Server 2 has 15.0% lower")
        /\ CacheDelta = -9500 => HasLine(recOut, "[X] **Cache Hit Ratio**: Server 2 has 95.0% lower")
        /\ ConnDelta = 25 => HasLine(recOut, "\n[X] **Connection Pool**: Server 2 has 25% higher")
        /\ UnusedDelta = 1500 => HasLine(recOut, "\n[X] **Index Usage**: Server 2 has 15.0% more")

\* the deltas were taken with a null cache operand on server 2, a missing
\* connection record on server 1 and a missing index record on server 1
C11_Witness ==
    /\ pc = "rec_done"
    /\ recIn.cache1 = CacheAt(9500) /\ recIn.cache2 = CacheNoTables
    /\ recIn.c1 = EmptyDict /\ recIn.c2 = ConnAt(25)
    /\ recIn.idx1 = EmptyDict /\ recIn.idx2 = IndexRow(40, 6, 900)
    /\ HasLine(recOut, "[X] **Cache Hit Ratio**: Server 2 has 95.0% lower")
    /\ HasLine(recOut, "\n[X] **Connection Pool**: Server 2 has 25% higher")
    /\ HasLine(recOut, "\n[X] **Index Usage**: Server 2 has 15.0% more")

\* C12: the memory-configuration advisory is emitted exactly when the
\* shared_buffers values of the two version records are unequal; it is not
\* emitted when they are equal, including when both are absent.
C12_MemoryAdvisoryIffSharedBuffersDiffer ==
    pc = "rec_done" =>
        /\ HasMemoryConfig <=> ~SharedBuffersEqual
        /\ (recIn.v1 = EmptyDict /\ recIn.v2 = EmptyDict) => ~HasMemoryConfig

\* both version records are empty and no memory advisory was emitted
C12_Witness ==
    /\ pc = "rec_done"
    /\ recIn.v1 = EmptyDict /\ recIn.v2 = EmptyDict
    /\ ~HasMemoryConfig

\* what a line of the output is: the title of a rule, or the line itself
\* (the two lines of the memory block that quote the settings, by their label)
LineTag(x) ==
    IF StartsWith(x, "[X] **Cache Hit Ratio**: Server 2 has ") THEN "title: cache hit ratio"
    ELSE IF StartsWith(x, "\n[X] **Connection Pool**: Server 2 has ") THEN "title: connection usage"
    ELSE IF StartsWith(x, "\n[X] **Index Usage**: Server 2 has ") THEN "title: index usage"
    ELSE IF StartsWith(x, "\n[!] **Memory Config**: ") THEN "title: memory configuration"
    ELSE IF StartsWith(x, "   - Server 1: ") THEN "   - Server 1: "
    ELSE IF StartsWith(x, "   - Server 2: ") THEN "   - Server 2: "
    ELSE x

\* the output without the line the cache rule leaves when it does not fire
FiredLines ==
    LET kept == SelectSeq(recOut, LAMBDA x : x # "[OK] **Cache Hit Ratio**: Similar between servers")
    IN [i \in DOMAIN kept |-> LineTag(kept[i])]

\* the blocks of the rules that fire, in the fixed rule order
ExpectedLines ==
    (IF CacheDelta < -1000
     THEN << "title: cache hit ratio",
             "   - **Fix**: Check for missing indexes on Server 2",
             "   - **Fix**: Increase shared_buffers and effective_cache_size on Server 2",
             "   - **Fix**: Analyze queries with high sequential scans vs index scans" >>
     ELSE <<>>)
    \o (IF ConnDelta > 20
        THEN << "title: connection usage",
                "   - **Fix**: Identify connection leaks in application",
                "   - **Fix**: Implement connection pooling (PgBouncer)" >>
        ELSE <<>>)
    \o (IF UnusedDelta > 500
        THEN << "title: index usage",
                "   - **Fix**: Drop unused indexes to free disk space and improve writes" >>
        ELSE <<>>)
    \o (IF ~SharedBuffersEqual
        THEN << "title: memory configuration",
                "   - Server 1: ",
                "   - Server 2: ",
                "   - **Fix**: Align settings or upgrade Server 2 configuration" >>
        ELSE <<>>)

\* C13: for every subset of rules that fire, their advisories appear in the
\* order cache hit ratio, connection usage, index usage, memory configuration,
\* each as one title followed by its fixed list of lines.
C13_AdvisoriesInRuleOrder ==
    pc = "rec_done" => FiredLines = ExpectedLines

\* all four rules fired
C13_Witness ==
    /\ pc = "rec_done"
    /\ CacheDelta < -1000 /\ ConnDelta > 20 /\ UnusedDelta > 500 /\ ~SharedBuffersEqual
    /\ Len(recOut) = 13
    /\ Len(Advisories(recOut)) = 4

-----------------------------------------------------------------------------
(* Properties of the performance-issues query (SpecPerf) *)

\* the classification as the specification words it; a NULL idx_scan
\* satisfies neither condition
Classify(t) ==
    IF t.idx_scan.t # "null" /\ t.idx_scan.n = 0 /\ t.seq_scan.n > 100 THEN "MISSING_INDEX"
    ELSE IF t.idx_scan.t # "null" /\ t.seq_scan.n > 10 * t.idx_scan.n THEN "FULL_TABLE_SCANS"
    ELSE "excluded"

RowsOf(name) == {i \in DOMAIN perfOut : perfOut[i].table_name = StrV(name)}

\* C10: a table is returned as MISSING_INDEX when idx_scan = 0 and
\* seq_scan > 100, otherwise as FULL_TABLE_SCANS when seq_scan > 10 * idx_scan,
\* and is not returned when neither holds; no returned row has issue type OK.
C10_PerformanceIssueClassification ==
    pc = "perf_done" =>
        /\ \A i \in DOMAIN tables :
              IF Classify(tables[i]) = "excluded"
              THEN RowsOf(tables[i].relname) = {}
              ELSE /\ Cardinality(RowsOf(tables[i].relname)) = 1
                   /\ \A j \in RowsOf(tables[i].relname) :
                         /\ perfOut[j].issue_type = StrV(Classify(tables[i]))
                         /\ perfOut[j].seq_scan = tables[i].seq_scan
                         /\ perfOut[j].idx_scan = tables[i].idx_scan
        /\ \A j \in DOMAIN perfOut : perfOut[j].issue_type # StrV("OK")
        /\ \A i \in DOMAIN tables :
              /\ (tables[i].idx_scan = IntV(0) /\ tables[i].seq_scan = IntV(150))
                    => \E j \in DOMAIN perfOut : /\ perfOut[j].table_name = StrV(tables[i].relname)
                                                 /\ perfOut[j].issue_type = StrV("MISSING_INDEX")
              /\ (tables[i].idx_scan = IntV(4) /\ tables[i].seq_scan = IntV(50))
                    => \E j \in DOMAIN perfOut : /\ perfOut[j].table_name = StrV(tables[i].relname)
                                                 /\ perfOut[j].issue_type = StrV("FULL_TABLE_SCANS")
              /\ (tables[i].idx_scan = IntV(5) /\ tables[i].seq_scan = IntV(10))
                    => RowsOf(tables[i].relname) = {}

\* the query has run over (idx_scan=0, seq_scan=150) and (seq_scan=10,
\* idx_scan=5): one MISSING_INDEX row, the other table excluded
C10_Witness ==
    /\ pc = "perf_done"
    /\ Len(tables) = 2
    /\ tables[1].idx_scan = IntV(0) /\ tables[1].seq_scan = IntV(150)
    /\ tables[2].idx_scan = IntV(5) /\ tables[2].seq_scan = IntV(10)
    /\ Len(perfOut) = 1
    /\ perfOut[1].issue_type = StrV("MISSING_INDEX")

-----------------------------------------------------------------------------
(* Properties of a run (Spec) *)

IsHeader(item) == item.kind = "text" /\ StartsWith(item.text, "## ")

\* the `## ` lines of the report, in order
HeaderLines == LET h == SelectSeq(report, IsHeader) IN [i \in DOMAIN h |-> h[i].text]

\* the elements of the report between the header of cat and the next header
SectionItems(cat) ==
    LET start == {i \in DOMAIN report : report[i] = Text(Header(cat))}
    IN {i \in DOMAIN report :
           \E a \in start : /\ a < i
                            /\ \A j \in (a + 1)..i : ~IsHeader(report[j])}

\* generate_markdown_report has returned its report
Returned == pc \in {"write", "finally", "exit"} /\ args.format = "markdown" /\ report # <<>>

AllIssuedOnce == \A s \in 1..2 : \A c \in CatSet : issued[s][c] = 1

\* C4: every connection that was opened is closed when the process exits, on
\* every exit path.
C4_OpenedConnectionsClosedAtExit ==
    pc = "exit" => (conn1 # "open" /\ conn2 # "open")

\* C5: a failed query yields an empty result, the remaining queries are
\* still executed on both servers and generate_markdown_report returns a
\* report; a query failure never aborts the run or raises.
C5_QueryFailureYieldsEmptyAndRunContinues ==
    /\ [](/\ \A f \in failed : res[f[2]][f[1]] = <<>>
          /\ Returned => (AllIssuedOnce /\ Len(HeaderLines) = 15))
    /\ [][failed' # failed =>
             /\ exc' = FALSE
             /\ pc' \in {"generate", "write"}
             /\ qi' = qi + 1
             /\ pc' = "write" => Returned']_vars

\* a run that returned its report although a scalar query failed on server 1
\* and a list query failed on server 2
C5_Witness ==
    /\ Returned /\ pc = "write"
    /\ <<1, "cache">> \in failed
    /\ <<2, "perf">> \in failed
    /\ res["cache"][1] = EmptyDict /\ res["perf"][2] = <<>>

\* C6: if the connection to either server cannot be established the process
\* ends with a non-zero status, no diagnostic query is executed on either
\* server and no report file is written.
C6_ConnectFailureExitsWithoutQueriesOrReport ==
    /\ (pc = "exit" /\ args.ok /\ (conn1 = "none" \/ conn2 = "none"))
          => (exitCode # 0 /\ issued = NoneIssued /\ file = "none")
    /\ (issued # NoneIssued \/ file # "none") => (conn1 # "none" /\ conn2 # "none")

\* the run ended because server 2 could not be reached after server 1 was
C6_Witness ==
    /\ pc = "exit" /\ args.ok
    /\ conn1 = "open" /\ conn2 = "none"
    /\ exitCode = 1 /\ issued = NoneIssued /\ file = "none"

\* C7: in every list-valued section each server has a subsection, and when
\* the server's list is empty that subsection is a fixed "no data" sentence.
C7_EmptyListRendersNoDataSentence ==
    Returned =>
        \A cat \in ListCats : \A s \in 1..2 :
            \E i \in SectionItems(cat) :
                /\ report[i].kind = "text"
                /\ StartsWith(report[i].text, "\n### Server " \o NatStr(s))
                /\ res[cat][s] = <<>> =>
                      StartsWith(report[i].text, "\n### Server " \o NatStr(s) \o ": No ")

\* the field is missing from the record or present with a null value
Absent(d, key) == key \notin DOMAIN d \/ d[key].t = "null"

\* C8: every value cell of a scalar table is the placeholder N/A (followed
\* by the % unit in a percentage row) whenever the value is absent, be the
\* field missing or null.
C8_AbsentValueRendersPlaceholder ==
    Returned =>
        \A cat \in ScalarCats : \A s \in 1..2 : \A k \in DOMAIN Layout(cat) :
            Absent(res[cat][s], Layout(cat)[k][2]) =>
                \E i \in SectionItems(cat) :
                    /\ report[i].kind = "table"
                    /\ report[i].rows[k][s + 1] \in {NA, StrV("N/A%")}

\* the section headers in the order the specification fixes
FixedOrder ==
    << "## Server Information\n",
       "## PostgreSQL Version & Configuration\n",
       "## Connection Statistics\n",
       "## Cache Hit Ratio (CRITICAL)\n",
       "## Database Size\n",
       "## Table Statistics\n",
       "## Index Statistics\n",
       "## Lock Statistics\n",
       "## Active Queries Now\n",
       "## Long Running Queries\n",
       "## Table Bloat (Dead Rows)\n",
       "## Query Performance Issues\n",
       "## Autovacuum Statistics\n",
       "## Memory Configuration\n",
       "## Analysis & Recommendations\n\n" >>

\* C9: whatever the queries return or fail with, the section headers of the
\* report are the fixed fifteen in the fixed order, none omitted, duplicated
\* or moved; while the report is being built they are a prefix of them.
C9_SectionOrderFixed ==
    /\ Returned => HeaderLines = FixedOrder
    /\ (pc = "generate" /\ args.format = "markdown") =>
          /\ Len(HeaderLines) <= Len(FixedOrder)
          /\ HeaderLines = SubSeq(FixedOrder, 1, Len(HeaderLines))
          /\ qi > 1 => Len(HeaderLines) = 1 + (qi \div 2)

\* a report returned from an empty server 1 and a populated server 2 with a
\* failed list query
C9_Witness ==
    /\ Returned
    /\ db = <<"empty", "slow">>
    /\ <<2, "bloat">> \in failed
    /\ HeaderLines = FixedOrder

\* C14: during one markdown run each of the 13 catalog queries is issued
\* exactly once against each server, whether it succeeds or fails; a failed
\* query is never issued again.
C14_EachQueryIssuedOncePerServer ==
    /\ \A s \in 1..2 : \A c \in CatSet : issued[s][c] <= 1
    /\ \A f \in failed : issued[f[1]][f[2]] = 1
    /\ Returned => AllIssuedOnce
    /\ args.format = "json" => issued = NoneIssued

\* a report was returned after the first query of the run and a later one
\* failed, each issued once
C14_Witness ==
    /\ Returned
    /\ <<1, "version">> \in failed /\ <<2, "autovacuum">> \in failed
    /\ issued[1]["version"] = 1 /\ issued[2]["autovacuum"] = 1
    /\ AllIssuedOnce

\* report generation raised: main is past the try body with no report
GenerationRaised == pc \in {"finally", "exit"} /\ exc /\ report = <<>>

\* C16: once both connections are established main closes both on every path
\* out of the run, also when report generation or the file write raises; the
\* output file is touched only after report generation has returned, so a
\* run whose generation raises writes no report.
C16_BothClosedAndFileOnlyAfterGeneration ==
    /\ []((pc = "exit" /\ conn1 # "none" /\ conn2 # "none")
             => (conn1 = "closed" /\ conn2 = "closed"))
    /\ [](GenerationRaised => file = "none")
    /\ [](file = "report" => (report # <<>> /\ ~exc))
    /\ [][file' # file => (pc = "write" /\ report # <<>>)]_vars

\* the run ended after report generation raised: both connections closed,
\* no file
C16_Witness ==
    /\ pc = "exit" /\ GenerationRaised
    /\ conn1 = "closed" /\ conn2 = "closed"
    /\ file = "none" /\ exitCode = 1

\* what the getter of category c collects from server s alone: [] (or {})
\* when its own query failed, the server's own rows otherwise
OwnResults(s, c) ==
    IF <<s, c>> \in failed THEN {Getter(c, <<>>)}
    ELSE {Getter(c, rows) : rows \in Results(db[s], c)}

\* C15: the two collections commute.  In every interleaving of the server-1
\* and server-2 queries and for every pattern of failures, what has been
\* collected for one server is fixed by that server's data and that
\* server's own failures, and the report is the one document rendered from
\* the two collected results, the same as in the code's own order.
C15_CollectionsCommute ==
    /\ (pc \in {"generate", "collect"} \/ Returned) =>
          \A s \in 1..2 : \A c \in CatSet :
             issued[s][c] = 1 => res[c][s] \in OwnResults(s, c)
    /\ Returned => report = RenderAll(res)

\* the collections ran interleaved (not in the code's order), a server-1
\* query failed, and server 2 kept its rows in the rendered report
C15_Witness ==
    /\ Returned /\ qi = 1
    /\ db[2] = "slow"
    /\ <<1, "version">> \in failed /\ \A c \in CatSet : <<2, c>> \notin failed
    /\ res["autovacuum"][2] # <<>> /\ res["version"][1] = EmptyDict
    /\ report = RenderAll(res)

====
